---- MODULE Spec2Model ----
(***************************************************************************)
(* Sweep-line interval-to-room assignment (src/src/sweep_line.rs).         *)
(*                                                                         *)
(* The model follows `assign` statement by statement: the event-building   *)
(* loop, the unstable sort of the (time, type, index) tuples, and the      *)
(* sweep over the sorted events with a min-heap of released room ids.      *)
(* `sweep_line_assignment`, the plugin entry point that dispatches to      *)
(* `assign`, is modelled as a further action in front of it.               *)
(*                                                                         *)
(* An Option<T::Native> is modelled as a sequence: <<>> is None and <<v>>  *)
(* is Some(v).  Row indices in events are 0-based as in the source; the    *)
(* sequences that model the arrays are 1-based, so row idx is element      *)
(* idx + 1.  max_id is a u32 in the source; it is bounded by the number of *)
(* rows, so the wrap-around at 2^32 is out of reach of any input modelled  *)
(* here.                                                                   *)
(***************************************************************************)
EXTENDS Integers, Sequences, FiniteSets, Bags, TLC

VARIABLES
    inputs,       \* the Series handed to sweep_line_assignment (<<>> on a direct call of assign)
    ca_start,     \* assign's first argument: sequence of Option values
    ca_end,       \* assign's second argument
    overlapping,  \* the flag
    pc,           \* position in the code: "plugin", "build", "sweep", "done"
    i,            \* the enumerate() counter of the build loop (1-based position)
    events,       \* Vec of <<time, type, idx>>
    k,            \* number of sorted events the sweep has consumed
    assignments,  \* Vec<u32>, <<>> until line 44 allocates it
    free_rooms,   \* BinaryHeap<Reverse<u32>> as a bag of ids
    max_id,       \* the mint counter
    ret,          \* "none" while running, "Ok", or the message of the Err returned
    trace         \* history: the events processed so far, each with the id it moved

vars == <<inputs, ca_start, ca_end, overlapping, pc, i, events, k,
          assignments, free_rooms, max_id, ret, trace>>

-----------------------------------------------------------------------------
(* Bounds of the model *)

MaxLen == 3
MaxTime == 2
LongMaxLen == 4
LongMaxTime == 1
ShapeMaxLen == 2
ShapeMaxTime == 1
FairMaxLen == 2
FairMaxTime == 2

-----------------------------------------------------------------------------
(* Values *)

None == <<>>

Some(v) == <<v>>

Opt(T) == {None} \cup {Some(v) : v \in 0..T}

Arrays(n, T) == [1..n -> Opt(T)]

Min2(a, b) == IF a < b THEN a ELSE b

Max2(a, b) == IF a > b THEN a ELSE b

MinOf(S) == CHOOSE x \in S : \A y \in S : x <= y

ErrEndBeforeStart == "End time before start time"

ErrArgCount == "Required 2 arguments (start, end)"

ErrDtypeMismatch == "Physical dtypes must match"

ErrUnsupported == "Unsupported physical type"

-----------------------------------------------------------------------------
(* assign, lines 24-39: the event builder *)

\* mutant of line 26: the flag is ignored, a departure always sorts first
EventTypes_IgnoreFlag(ovl) == <<1, 0>>

\* mutant of line 26: the two arms of the if are exchanged
EventTypes_Inverted(ovl) == IF ovl THEN <<1, 0>> ELSE <<0, 1>>

\* line 26: (arrival_type, departure_type)
EventTypes(ovl) == IF ovl THEN <<0, 1>> ELSE <<1, 0>>

ArrivalType(ovl) == EventTypes(ovl)[1]

DepartureType(ovl) == EventTypes(ovl)[2]

\* line 29: zip() stops at the shorter of the two iterators
ZipLen(s, e) == Min2(Len(s), Len(e))

\* mutant of line 30: a null endpoint is read as 0 (unwrap_or_default) instead of skipping the row
Endpoints_UnwrapOrZero(s_opt, e_opt) ==
    Some(<<IF s_opt = None THEN 0 ELSE s_opt[1], IF e_opt = None THEN 0 ELSE e_opt[1]>>)

\* line 30: `if let (Some(s), Some(e)) = (s_opt, e_opt)`; None when it does not match
Endpoints(s_opt, e_opt) ==
    IF s_opt # None /\ e_opt # None THEN Some(<<s_opt[1], e_opt[1]>>) ELSE None

\* mutant of line 31: `e <= s`, which also rejects zero-length rows
InvalidInterval_OrEqual(s, e) == e <= s

\* line 31
InvalidInterval(s, e) == e < s

\* mutant of lines 36-37: the departure is pushed only for a row with e > s
PushEvents_NoDepartureWhenEmpty(evs, s, e, idx, ovl) ==
    evs \o << <<s, ArrivalType(ovl), idx>> >>
        \o (IF e > s THEN << <<e, DepartureType(ovl), idx>> >> ELSE <<>>)

\* lines 36-37
PushEvents(evs, s, e, idx, ovl) ==
    evs \o << <<s, ArrivalType(ovl), idx>>, <<e, DepartureType(ovl), idx>> >>

-----------------------------------------------------------------------------
(* assign, lines 41-42: sort_unstable on (time, type, idx) tuples *)

\* mutant of the sort key: events compared by (time, type) only, the row index left out
EventLess_NoIndex(a, b) ==
    \/ a[1] < b[1]
    \/ a[1] = b[1] /\ a[2] < b[2]

\* mutant of the sort key: the tuple built as (time, idx, type), the row index ahead of the type
EventLess_IndexBeforeType(a, b) ==
    \/ a[1] < b[1]
    \/ a[1] = b[1] /\ a[3] < b[3]
    \/ a[1] = b[1] /\ a[3] = b[3] /\ a[2] < b[2]

\* the derived lexicographic Ord of the tuple
EventLess(a, b) ==
    \/ a[1] < b[1]
    \/ a[1] = b[1] /\ a[2] < b[2]
    \/ a[1] = b[1] /\ a[2] = b[2] /\ a[3] < b[3]

RECURSIVE SortedOrders(_, _)
\* every arrangement of the elements at positions I that is ascending under EventLess
SortedOrders(evs, I) ==
    IF I = {} THEN {<<>>}
    ELSE UNION { { <<evs[m]>> \o r : r \in SortedOrders(evs, I \ {m}) } :
                 m \in {j \in I : \A l \in I : ~EventLess(evs[l], evs[j])} }

\* sort_unstable: any ascending arrangement may come out
SortUnstable(evs) == SortedOrders(evs, DOMAIN evs)

-----------------------------------------------------------------------------
(* assign, lines 44-58: the sweep *)

\* line 44
NewAssignments(n) == [j \in 1..n |-> 0]

\* mutant of line 54: the id is stored one row too low (assignments[idx - 1])
SweepEvent_ShiftedRow(st, ev, ovl) ==
    LET idx == ev[3] IN
    IF ev[2] = ArrivalType(ovl)
    THEN IF BagToSet(st.free_rooms) # {}
         THEN LET id == MinOf(BagToSet(st.free_rooms)) IN
              [assignments |-> [st.assignments EXCEPT ![idx] = id],
               free_rooms  |-> st.free_rooms (-) SetToBag({id}),
               max_id      |-> st.max_id,
               moved       |-> id]
         ELSE [assignments |-> [st.assignments EXCEPT ![idx] = st.max_id + 1],
               free_rooms  |-> st.free_rooms,
               max_id      |-> st.max_id + 1,
               moved       |-> st.max_id + 1]
    ELSE [assignments |-> st.assignments,
          free_rooms  |-> st.free_rooms (+) SetToBag({st.assignments[idx + 1]}),
          max_id      |-> st.max_id,
          moved       |-> st.assignments[idx + 1]]

\* mutant of line 50: the heap without Reverse, pop() yields the largest free id
SweepEvent_PopMax(st, ev, ovl) ==
    LET idx == ev[3] IN
    IF ev[2] = ArrivalType(ovl)
    THEN IF BagToSet(st.free_rooms) # {}
         THEN LET id == CHOOSE x \in BagToSet(st.free_rooms) :
                            \A y \in BagToSet(st.free_rooms) : y <= x IN
              [assignments |-> [st.assignments EXCEPT ![idx + 1] = id],
               free_rooms  |-> st.free_rooms (-) SetToBag({id}),
               max_id      |-> st.max_id,
               moved       |-> id]
         ELSE [assignments |-> [st.assignments EXCEPT ![idx + 1] = st.max_id + 1],
               free_rooms  |-> st.free_rooms,
               max_id      |-> st.max_id + 1,
               moved       |-> st.max_id + 1]
    ELSE [assignments |-> st.assignments,
          free_rooms  |-> st.free_rooms (+) SetToBag({st.assignments[idx + 1]}),
          max_id      |-> st.max_id,
          moved       |-> st.assignments[idx + 1]]

\* lines 48-58, one iteration: st is [assignments, free_rooms, max_id, moved]
SweepEvent(st, ev, ovl) ==
    LET idx == ev[3] IN
    IF ev[2] = ArrivalType(ovl)
    THEN IF BagToSet(st.free_rooms) # {}
         THEN LET id == MinOf(BagToSet(st.free_rooms)) IN
              [assignments |-> [st.assignments EXCEPT ![idx + 1] = id],
               free_rooms  |-> st.free_rooms (-) SetToBag({id}),
               max_id      |-> st.max_id,
               moved       |-> id]
         ELSE [assignments |-> [st.assignments EXCEPT ![idx + 1] = st.max_id + 1],
               free_rooms  |-> st.free_rooms,
               max_id      |-> st.max_id + 1,
               moved       |-> st.max_id + 1]
    ELSE [assignments |-> st.assignments,
          free_rooms  |-> st.free_rooms (+) SetToBag({st.assignments[idx + 1]}),
          max_id      |-> st.max_id,
          moved       |-> st.assignments[idx + 1]]

-----------------------------------------------------------------------------
(* assign as a whole, lines 15-60, as a function of its arguments.  Where   *)
(* sort_unstable leaves a choice, this takes one fixed arrangement.          *)

RECURSIVE BuildLoop(_, _, _, _, _)
\* lines 29-39 from position j on; err is the early return of line 32
BuildLoop(s, e, ovl, j, evs) ==
    IF j > ZipLen(s, e) THEN [err |-> FALSE, events |-> evs]
    ELSE LET p == Endpoints(s[j], e[j]) IN
         IF p = None THEN BuildLoop(s, e, ovl, j + 1, evs)
         ELSE IF InvalidInterval(p[1][1], p[1][2]) THEN [err |-> TRUE, events |-> <<>>]
         ELSE BuildLoop(s, e, ovl, j + 1, PushEvents(evs, p[1][1], p[1][2], j - 1, ovl))

RECURSIVE SweepLoop(_, _, _, _)
\* lines 48-58 from sorted event j on
SweepLoop(st, sorted, j, ovl) ==
    IF j > Len(sorted) THEN st
    ELSE SweepLoop(SweepEvent(st, sorted[j], ovl), sorted, j + 1, ovl)

Assign(s, e, ovl) ==
    LET b == BuildLoop(s, e, ovl, 1, <<>>) IN
    IF b.err THEN [ret |-> ErrEndBeforeStart, out |-> <<>>]
    ELSE LET sorted == CHOOSE x \in SortUnstable(b.events) : TRUE
             st0 == [assignments |-> NewAssignments(Len(s)), free_rooms |-> EmptyBag,
                     max_id |-> 0, moved |-> 0]
         IN [ret |-> "Ok", out |-> SweepLoop(st0, sorted, 1, ovl).assignments]

-----------------------------------------------------------------------------
(* sweep_line_assignment, lines 65-103 *)

DTypes == {"Int64", "Int32", "Datetime", "Float64"}

\* the arms of the match at lines 85-93
SupportedPhysical ==
    {"Int64", "Int32", "Int16", "Int8", "UInt64", "UInt32", "UInt16", "UInt8"}

\* lines 76-77: to_physical_repr maps a logical type to the integer type that stores it
ToPhysicalRepr(series) ==
    [dtype  |-> IF series.dtype = "Datetime" THEN "Int64"
                ELSE IF series.dtype = "Date" THEN "Int32"
                ELSE series.dtype,
     values |-> series.values]

-----------------------------------------------------------------------------
(* Initial states *)

Idle ==
    /\ pc = "build"
    /\ i = 1
    /\ events = <<>>
    /\ k = 0
    /\ assignments = <<>>
    /\ free_rooms = EmptyBag
    /\ max_id = 0
    /\ ret = "none"
    /\ trace = <<>>

\* a direct call of assign on two arrays of the same length, nulls allowed
Init ==
    /\ inputs = <<>>
    /\ \E n \in 0..MaxLen :
          /\ ca_start \in Arrays(n, MaxTime)
          /\ ca_end \in Arrays(n, MaxTime)
    /\ overlapping \in BOOLEAN
    /\ Idle

\* a direct call of assign on longer arrays over a shorter time axis
InitLong ==
    /\ inputs = <<>>
    /\ \E n \in 0..LongMaxLen :
          /\ ca_start \in Arrays(n, LongMaxTime)
          /\ ca_end \in Arrays(n, LongMaxTime)
    /\ overlapping \in BOOLEAN
    /\ Idle

\* a direct call of assign on short arrays, for the properties of whole runs
InitFair ==
    /\ inputs = <<>>
    /\ \E n \in 0..FairMaxLen :
          /\ ca_start \in Arrays(n, FairMaxTime)
          /\ ca_end \in Arrays(n, FairMaxTime)
    /\ overlapping \in BOOLEAN
    /\ Idle

SeriesSet ==
    { [dtype |-> d, values |-> a] :
        d \in DTypes, a \in UNION { Arrays(n, ShapeMaxTime) : n \in 0..ShapeMaxLen } }

\* a call of the plugin entry point with one, two or three Series of any lengths
InitPlugin ==
    /\ \E a \in SeriesSet, b \in SeriesSet : inputs \in {<<a>>, <<a, b>>, <<a, b, a>>}
    /\ ca_start = <<>>
    /\ ca_end = <<>>
    /\ overlapping \in BOOLEAN
    /\ pc = "plugin"
    /\ i = 1
    /\ events = <<>>
    /\ k = 0
    /\ assignments = <<>>
    /\ free_rooms = EmptyBag
    /\ max_id = 0
    /\ ret = "none"
    /\ trace = <<>>

-----------------------------------------------------------------------------
(* Actions of sweep_line_assignment *)

\* lines 66-70
PluginArgCount ==
    /\ pc = "plugin"
    /\ Len(inputs) # 2
    /\ ret' = ErrArgCount
    /\ pc' = "done"
    /\ UNCHANGED <<inputs, ca_start, ca_end, overlapping, i, events, k,
                   assignments, free_rooms, max_id, trace>>

\* lines 72-83
PluginDtypeMismatch ==
    /\ pc = "plugin"
    /\ Len(inputs) = 2
    /\ ToPhysicalRepr(inputs[1]).dtype # ToPhysicalRepr(inputs[2]).dtype
    /\ ret' = ErrDtypeMismatch
    /\ pc' = "done"
    /\ UNCHANGED <<inputs, ca_start, ca_end, overlapping, i, events, k,
                   assignments, free_rooms, max_id, trace>>

\* lines 85, 94-98
PluginUnsupported ==
    /\ pc = "plugin"
    /\ Len(inputs) = 2
    /\ ToPhysicalRepr(inputs[1]).dtype = ToPhysicalRepr(inputs[2]).dtype
    /\ ToPhysicalRepr(inputs[1]).dtype \notin SupportedPhysical
    /\ ret' = ErrUnsupported
    /\ pc' = "done"
    /\ UNCHANGED <<inputs, ca_start, ca_end, overlapping, i, events, k,
                   assignments, free_rooms, max_id, trace>>

\* lines 85-93: the call of assign on the two physical arrays
PluginDispatch ==
    /\ pc = "plugin"
    /\ Len(inputs) = 2
    /\ ToPhysicalRepr(inputs[1]).dtype = ToPhysicalRepr(inputs[2]).dtype
    /\ ToPhysicalRepr(inputs[1]).dtype \in SupportedPhysical
    /\ ca_start' = ToPhysicalRepr(inputs[1]).values
    /\ ca_end' = ToPhysicalRepr(inputs[2]).values
    /\ pc' = "build"
    /\ UNCHANGED <<inputs, overlapping, i, events, k,
                   assignments, free_rooms, max_id, ret, trace>>

-----------------------------------------------------------------------------
(* Actions of assign *)

\* lines 29-30, 38: a row with a null start or end emits nothing
BuildSkip ==
    /\ pc = "build"
    /\ i <= ZipLen(ca_start, ca_end)
    /\ Endpoints(ca_start[i], ca_end[i]) = None
    /\ i' = i + 1
    /\ UNCHANGED <<inputs, ca_start, ca_end, overlapping, pc, events, k,
                   assignments, free_rooms, max_id, ret, trace>>

\* lines 31-35: the early return of the error
BuildFail ==
    /\ pc = "build"
    /\ i <= ZipLen(ca_start, ca_end)
    /\ Endpoints(ca_start[i], ca_end[i]) # None
    /\ LET p == Endpoints(ca_start[i], ca_end[i])[1] IN InvalidInterval(p[1], p[2])
    /\ ret' = ErrEndBeforeStart
    /\ pc' = "done"
    /\ events' = <<>>
    /\ UNCHANGED <<inputs, ca_start, ca_end, overlapping, i, k,
                   assignments, free_rooms, max_id, trace>>

\* lines 36-37
BuildPush ==
    /\ pc = "build"
    /\ i <= ZipLen(ca_start, ca_end)
    /\ Endpoints(ca_start[i], ca_end[i]) # None
    /\ LET p == Endpoints(ca_start[i], ca_end[i])[1] IN
          /\ ~InvalidInterval(p[1], p[2])
          /\ events' = PushEvents(events, p[1], p[2], i - 1, overlapping)
    /\ i' = i + 1
    /\ UNCHANGED <<inputs, ca_start, ca_end, overlapping, pc, k,
                   assignments, free_rooms, max_id, ret, trace>>

\* lines 41-46: the loop is over; sort, then allocate the sweep's state
SortEvents ==
    /\ pc = "build"
    /\ i > ZipLen(ca_start, ca_end)
    /\ events' \in SortUnstable(events)
    /\ assignments' = NewAssignments(Len(ca_start))
    /\ free_rooms' = EmptyBag
    /\ max_id' = 0
    /\ pc' = "sweep"
    /\ UNCHANGED <<inputs, ca_start, ca_end, overlapping, i, k, ret, trace>>

\* lines 48-58: one iteration of the sweep
SweepStep ==
    /\ pc = "sweep"
    /\ k < Len(events)
    /\ LET st == SweepEvent([assignments |-> assignments, free_rooms |-> free_rooms,
                             max_id |-> max_id, moved |-> 0],
                            events[k + 1], overlapping)
       IN /\ assignments' = st.assignments
          /\ free_rooms' = st.free_rooms
          /\ max_id' = st.max_id
          /\ trace' = Append(trace, [type |-> events[k + 1][2], idx |-> events[k + 1][3],
                                     id |-> st.moved])
    /\ k' = k + 1
    /\ UNCHANGED <<inputs, ca_start, ca_end, overlapping, pc, i, events, ret>>

\* line 59
Return ==
    /\ pc = "sweep"
    /\ k = Len(events)
    /\ ret' = "Ok"
    /\ pc' = "done"
    /\ UNCHANGED <<inputs, ca_start, ca_end, overlapping, i, events, k,
                   assignments, free_rooms, max_id, trace>>

Next ==
    \/ BuildSkip
    \/ BuildFail
    \/ BuildPush
    \/ SortEvents
    \/ SweepStep
    \/ Return

NextPlugin ==
    \/ PluginArgCount
    \/ PluginDtypeMismatch
    \/ PluginUnsupported
    \/ PluginDispatch
    \/ Next

Spec == Init /\ [][Next]_vars

SpecLong == InitLong /\ [][Next]_vars

SpecPlugin == InitPlugin /\ [][NextPlugin]_vars

\* assign is one synchronous call without suspension points: once entered it
\* runs its loops to the end
SpecFair == InitFair /\ [][Next]_vars /\ WF_vars(Next)

-----------------------------------------------------------------------------
(* Vocabulary of the properties *)

Rows == 1..Len(ca_start)

\* row j has both a start and an end
Present(j) == j <= Len(ca_end) /\ ca_start[j] # None /\ ca_end[j] # None

PresentRows == {j \in Rows : Present(j)}

StartOf(j) == ca_start[j][1]

EndOf(j) == ca_end[j][1]

\* the rows open at time t: closed intervals when touching conflicts, half-open otherwise
OpenAt(t, ovl) ==
    {j \in PresentRows :
        StartOf(j) <= t /\ (IF ovl THEN t <= EndOf(j) ELSE t < EndOf(j))}

\* the largest number of rows open at one time (a maximum is reached at some start)
MaxOpen(ovl) ==
    LET counts == {Cardinality(OpenAt(StartOf(j), ovl)) : j \in PresentRows} \cup {0}
    IN CHOOSE c \in counts : \A d \in counts : d <= c

\* the input with every row that has a null start or end deleted
KeptRows(s, e) ==
    SelectSeq([j \in 1..Len(s) |-> <<s[j], e[j]>>],
              LAMBDA p : p[1] # None /\ p[2] # None)

KeptStarts == [j \in 1..Len(KeptRows(ca_start, ca_end)) |-> KeptRows(ca_start, ca_end)[j][1]]

KeptEnds == [j \in 1..Len(KeptRows(ca_start, ca_end)) |-> KeptRows(ca_start, ca_end)[j][2]]

\* the position of present row j among the kept rows
RankOf(j) == Cardinality({l \in 1..j : Present(l)})

-----------------------------------------------------------------------------
(* C1 - C10: the contract of assign *)

\* C1: with overlapping = false, after a successful call no two present rows
\* that hold the same id overlap as half-open intervals, zero-length rows
\* included.
C1_NoSharedRoomHalfOpen ==
    (ret = "Ok" /\ ~overlapping) =>
        \A a \in PresentRows, b \in PresentRows :
            (a # b /\ assignments[a] = assignments[b]) =>
                ~(Max2(StartOf(a), StartOf(b)) < Min2(EndOf(a), EndOf(b)))

\* C2: with overlapping = true, after a successful call no two present rows
\* that hold the same id overlap or touch as closed intervals.
C2_NoSharedRoomClosed ==
    (ret = "Ok" /\ overlapping) =>
        \A a \in PresentRows, b \in PresentRows :
            (a # b /\ assignments[a] = assignments[b]) =>
                ~(Max2(StartOf(a), StartOf(b)) <= Min2(EndOf(a), EndOf(b)))

\* C2 witness: a finished call with overlapping = true where two rows share
\* an id and two touching rows were kept apart.
C2_Witness ==
    /\ ret = "Ok"
    /\ overlapping
    /\ \E a \in PresentRows, b \in PresentRows :
          a # b /\ assignments[a] = assignments[b]
    /\ \E c \in PresentRows, d \in PresentRows :
          c # d /\ EndOf(c) = StartOf(d) /\ assignments[c] # assignments[d]

\* C3: after a successful call the number of distinct ids held by present rows
\* equals the largest number of rows open at once under the active policy.
C3_DistinctIdsEqualMaxOpen ==
    ret = "Ok" =>
        Cardinality({assignments[j] : j \in PresentRows}) = MaxOpen(overlapping)

\* C4: after a successful call every present row (start = end included) holds
\* an id >= 1 and every row with a null start or end holds 0.
C4_IdsPositiveExactlyOnPresentRows ==
    ret = "Ok" =>
        \A j \in Rows :
            IF Present(j) THEN assignments[j] >= 1 ELSE assignments[j] = 0

\* C5: the call ends in the error exactly when some row has both endpoints and
\* end < start, wherever that row is; the error leaves no output array;
\* a call that ends otherwise ends Ok.
C5_ErrorIffEndBeforeStart ==
    pc = "done" =>
        /\ ret \in {"Ok", ErrEndBeforeStart}
        /\ ret = ErrEndBeforeStart <=>
              \E j \in Rows : Present(j) /\ EndOf(j) < StartOf(j)
        /\ ret = ErrEndBeforeStart => assignments = <<>>

\* C5 witness: the error was returned for a bad row that is last in the batch,
\* behind a null row and a well-formed row.
C5_Witness ==
    /\ pc = "done"
    /\ ret = ErrEndBeforeStart
    /\ Len(ca_start) = 3
    /\ Present(3) /\ EndOf(3) < StartOf(3)
    /\ \E j \in 1..2 : ~Present(j)
    /\ \E j \in 1..2 : Present(j) /\ StartOf(j) <= EndOf(j)

\* C6: a batch of exactly two rows [a,b] and [b,c] with a < b < c, in either
\* input order: ids 1 and 1 with overlapping = false; with overlapping = true
\* [a,b] holds 1 and [b,c] holds 2.
C6_TouchingPair ==
    (ret = "Ok" /\ Len(ca_start) = 2 /\ Present(1) /\ Present(2)) =>
        \A first \in 1..2 :
            LET second == 3 - first IN
            (/\ StartOf(first) < EndOf(first)
             /\ EndOf(first) = StartOf(second)
             /\ StartOf(second) < EndOf(second)) =>
                IF overlapping
                THEN assignments[first] = 1 /\ assignments[second] = 2
                ELSE assignments = <<1, 1>>

\* C6 witness: the pair given in reverse input order, [1,2] before [0,1],
\* with overlapping = true, has been assigned.
C6_Witness ==
    /\ ret = "Ok"
    /\ overlapping
    /\ ca_start = <<Some(1), Some(0)>>
    /\ ca_end = <<Some(2), Some(1)>>

\* C7: the call ends as the call on the input without its null rows ends, and
\* each present row holds the id its counterpart holds there.
C7_NullRowsDoNotInterfere ==
    pc = "done" =>
        LET r == Assign(KeptStarts, KeptEnds, overlapping) IN
        /\ ret = r.ret
        /\ ret = "Ok" => \A j \in PresentRows : assignments[j] = r.out[RankOf(j)]

\* C7 witness: a finished call where a null row stands between two present
\* rows.
C7_Witness ==
    /\ ret = "Ok"
    /\ Len(ca_start) = 3
    /\ Present(1) /\ ~Present(2) /\ Present(3)
    /\ ca_start[2] # None

\* C8: a plugin call whose two Series differ in length never ends Ok.
C8_UnequalLengthsRejected ==
    (/\ pc = "done"
     /\ Len(inputs) = 2
     /\ Len(inputs[1].values) # Len(inputs[2].values)) => ret # "Ok"

\* C9: the events built are pairwise distinct, so sort_unstable has exactly one
\* possible outcome, and every call ends with the one result that is a
\* function of starts, ends and overlapping.
C9_Deterministic ==
    /\ (pc = "build" /\ i > ZipLen(ca_start, ca_end)) =>
          /\ \A a \in DOMAIN events, b \in DOMAIN events :
                a # b => events[a] # events[b]
          /\ Cardinality(SortUnstable(events)) = 1
    /\ pc = "done" =>
          LET r == Assign(ca_start, ca_end, overlapping) IN
          /\ ret = r.ret
          /\ ret = "Ok" => assignments = r.out

\* C9 witness: a finished call in which several events had the same time and
\* the same type, so that only the row index ordered them.
C9_Witness ==
    /\ ret = "Ok"
    /\ \E a \in DOMAIN events, b \in DOMAIN events :
          a # b /\ events[a][1] = events[b][1] /\ events[a][2] = events[b][2]

\* C10: after a successful call the output is as long as the input, each
\* present row holds the id handed out at the arrival of that same row, and
\* the rows that were skipped were never written.
C10_PositionalOutput ==
    ret = "Ok" =>
        /\ Len(assignments) = Len(ca_start)
        /\ \A j \in Rows :
              IF Present(j)
              THEN \E t \in DOMAIN trace :
                      /\ trace[t].type = ArrivalType(overlapping)
                      /\ trace[t].idx = j - 1
                      /\ trace[t].id = assignments[j]
              ELSE /\ assignments[j] = 0
                   /\ \A t \in DOMAIN trace : trace[t].idx # j - 1

\* C10 witness: a finished call on three rows of which one is null and the
\* other two hold different ids.
C10_Witness ==
    /\ ret = "Ok"
    /\ Len(ca_start) = 3
    /\ \E j \in Rows : ~Present(j)
    /\ \E a \in PresentRows, b \in PresentRows : assignments[a] # assignments[b]

-----------------------------------------------------------------------------
(* C11 - C17: the sweep, event by event *)

\* the time of the t-th processed event, read from the row it belongs to
TimeOf(t) ==
    IF trace[t].type = ArrivalType(overlapping)
    THEN StartOf(trace[t].idx + 1) ELSE EndOf(trace[t].idx + 1)

IsArrival(t) == trace[t].type = ArrivalType(overlapping)

IsDeparture(t) == trace[t].type = DepartureType(overlapping)

\* C11: every departure the sweep has processed comes strictly after the
\* arrival of the same row, and pushes the id that arrival handed out.
C11_ArrivalBeforeDeparture ==
    \A t \in DOMAIN trace :
        IsDeparture(t) =>
            \E u \in 1..(t - 1) :
                /\ IsArrival(u)
                /\ trace[u].idx = trace[t].idx
                /\ trace[u].id = trace[t].id

\* C12: the events are processed in ascending time; at one time every
\* departure precedes every arrival with overlapping = false and every arrival
\* precedes every departure with overlapping = true; at one time and type the
\* row indices ascend.  Stated of the event processed last against every
\* earlier one, in every state of the sweep.
C12_ProcessingOrder ==
    \A t \in DOMAIN trace, u \in {Len(trace)} :
        t < u =>
            /\ TimeOf(t) <= TimeOf(u)
            /\ TimeOf(t) = TimeOf(u) =>
                  /\ overlapping => ~(IsDeparture(t) /\ IsArrival(u))
                  /\ ~overlapping => ~(IsArrival(t) /\ IsDeparture(u))
                  /\ trace[t].type = trace[u].type => trace[t].idx < trace[u].idx

\* C12 witness: a finished sweep in which one time carried two departures and
\* two arrivals of three different rows.
C12_Witness ==
    /\ ret = "Ok"
    /\ \E a \in DOMAIN trace, b \in DOMAIN trace, c \in DOMAIN trace, d \in DOMAIN trace :
          /\ a # b /\ c # d
          /\ IsDeparture(a) /\ IsDeparture(b) /\ IsArrival(c) /\ IsArrival(d)
          /\ TimeOf(a) = TimeOf(b) /\ TimeOf(b) = TimeOf(c) /\ TimeOf(c) = TimeOf(d)
          /\ Cardinality({trace[a].idx, trace[b].idx, trace[c].idx, trace[d].idx}) = 3

\* the ids that occur in bag B or in bag C
IdsOf(B, C) == BagToSet(B) \cup BagToSet(C)

\* C13: one event of the sweep.  An arrival of row r with a non-empty pool
\* sets output[r] to the least id of the pool and takes one copy of it out;
\* with an empty pool it raises the counter by one and sets output[r] to the
\* new value.  A departure of row r adds output[r] to the pool and changes no
\* output entry and not the counter.  No other output entry changes.
C13_EventEffect ==
    [][ (pc = "sweep" /\ k' = k + 1) =>
          LET r == events[k + 1][3] + 1 IN
          IF events[k + 1][2] = ArrivalType(overlapping)
          THEN /\ \A j \in Rows \ {r} : assignments'[j] = assignments[j]
               /\ IF BagToSet(free_rooms) # {}
                  THEN /\ assignments'[r] \in BagToSet(free_rooms)
                       /\ \A x \in BagToSet(free_rooms) : assignments'[r] <= x
                       /\ \A x \in IdsOf(free_rooms, free_rooms') :
                             CopiesIn(x, free_rooms') =
                                CopiesIn(x, free_rooms) - (IF x = assignments'[r] THEN 1 ELSE 0)
                       /\ max_id' = max_id
                  ELSE /\ max_id' = max_id + 1
                       /\ assignments'[r] = max_id + 1
                       /\ free_rooms' = free_rooms
          ELSE /\ \A x \in IdsOf(free_rooms, free_rooms') :
                     CopiesIn(x, free_rooms') =
                        CopiesIn(x, free_rooms) + (IF x = assignments[r] THEN 1 ELSE 0)
               /\ CopiesIn(assignments[r], free_rooms') >= 1
               /\ assignments' = assignments
               /\ max_id' = max_id ]_vars

\* C13 witness: an arrival has just taken the least of two different ids out
\* of the pool, after an earlier arrival had minted an id.
C13_Witness ==
    /\ pc = "sweep"
    /\ k >= 1
    /\ IsArrival(k)
    /\ trace[k].id < max_id
    /\ trace[k].id >= 1
    /\ \E x \in BagToSet(free_rooms) : x > trace[k].id
    /\ \E t \in 1..(k - 1) : IsDeparture(t)

\* C14: once both events of a row with start = end are processed, the
\* departure of the row came first with overlapping = false and the arrival
\* came first with overlapping = true.
C14_ZeroLengthOrder ==
    ret = "Ok" =>
        \A j \in PresentRows :
            StartOf(j) = EndOf(j) =>
                \E a \in DOMAIN trace, d \in DOMAIN trace :
                    /\ IsArrival(a) /\ trace[a].idx = j - 1
                    /\ IsDeparture(d) /\ trace[d].idx = j - 1
                    /\ IF overlapping THEN a < d ELSE d < a

\* C14 witness: a finished call with overlapping = false on a batch that has
\* a row with start = end next to a row with start < end.
C14_Witness ==
    /\ ret = "Ok"
    /\ ~overlapping
    /\ \E j \in PresentRows : StartOf(j) = EndOf(j)
    /\ \E j \in PresentRows : StartOf(j) < EndOf(j)

\* the rows that have arrived and not yet departed
OpenRows ==
    {j \in PresentRows :
        /\ \E t \in DOMAIN trace : IsArrival(t) /\ trace[t].idx = j - 1
        /\ ~\E t \in DOMAIN trace : IsDeparture(t) /\ trace[t].idx = j - 1}

\* C15: after every event of the sweep each id of 1..max_id is either once in
\* the pool and held by no open row, or absent from the pool and held by
\* exactly one open row; the pool holds no 0, no id twice and no id that an
\* open row holds.
C15_PoolPartition ==
    pc \in {"sweep", "done"} /\ ret # ErrEndBeforeStart =>
        /\ \A id \in 1..max_id :
              LET holders == {j \in OpenRows : assignments[j] = id} IN
              \/ CopiesIn(id, free_rooms) = 1 /\ holders = {}
              \/ CopiesIn(id, free_rooms) = 0 /\ Cardinality(holders) = 1
        /\ \A x \in BagToSet(free_rooms) :
              /\ x # 0
              /\ CopiesIn(x, free_rooms) = 1
              /\ \A j \in OpenRows : assignments[j] # x

\* C16: after a successful call the ids held by the present rows are exactly
\* 1..max_id; the ids were minted in the order 1, 2, 3, ..., each by an
\* arrival that gave it to its own row.
C16_DenseIds ==
    ret = "Ok" =>
        /\ {assignments[j] : j \in PresentRows} = 1..max_id
        /\ \A m \in 1..max_id :
              \E t \in DOMAIN trace :
                  /\ IsArrival(t) /\ trace[t].id = m
                  /\ \A u \in 1..(t - 1) : trace[u].id < m
                  /\ \A n \in 1..(m - 1) : \E u \in 1..(t - 1) : trace[u].id = n

\* the events built so far hold exactly one arrival at its start and one
\* departure at its end for each present row among the first n, and no other
EventsCover(n) ==
    /\ Len(events) = 2 * Cardinality({j \in PresentRows : j <= n})
    /\ \A j \in PresentRows :
          j <= n =>
              /\ Cardinality({t \in DOMAIN events :
                     events[t] = <<StartOf(j), ArrivalType(overlapping), j - 1>>}) = 1
              /\ Cardinality({t \in DOMAIN events :
                     events[t] = <<EndOf(j), DepartureType(overlapping), j - 1>>}) = 1
    /\ \A t \in DOMAIN events : events[t][3] + 1 \in PresentRows

\* C17: the builder emits exactly one arrival at start and one departure at
\* end, both with the row's index, for every row with both endpoints, and
\* nothing for a row with a null endpoint; a call that passes the builder
\* processes exactly these events, twice the number of present rows, and
\* every call ends.
C17_TwoEventsPerRowThenEnd ==
    /\ [](ret # ErrEndBeforeStart =>
            /\ pc = "build" => EventsCover(i - 1)
            /\ pc \in {"sweep", "done"} =>
                  /\ EventsCover(Len(ca_start))
                  /\ Len(trace) = k
                  /\ k <= Len(events)
            /\ ret = "Ok" => Len(trace) = 2 * Cardinality(PresentRows))
    /\ <>(pc = "done")

\* C17 witness: a call on two rows, the first with a null end and the second
\* of zero length, has ended after processing two events.
C17_Witness ==
    /\ ret = "Ok"
    /\ Len(ca_start) = 2
    /\ ca_start[1] # None /\ ca_end[1] = None
    /\ Present(2) /\ StartOf(2) = EndOf(2)
    /\ Len(trace) = 2

====
